---------------------------- MODULE Spec2Model ----------------------------
(***************************************************************************)
(* The provisioning pipeline of main.go: main calls nine functions in a    *)
(* fixed order; each function issues its provider calls one after another, *)
(* blocks on each, and returns either a value or a wrapped error; main     *)
(* ends the process with logger.Fatal on the first error.                  *)
(*                                                                         *)
(* A provider call is two steps of the model: the program issues the       *)
(* request (it is then in flight), and the provider answers, with success  *)
(* or with an error, after which the code's handling of the answer runs.   *)
(* The provider is the remote service: it may reject any request, it must  *)
(* reject one whose name is in use or whose references do not exist, and   *)
(* a request issued under a context that is done comes back as an error.   *)
(***************************************************************************)
EXTENDS Naturals, Sequences, FiniteSets, TLC

VARIABLES
    status,     \* "running", "ok" (main returned) or "fatal" (logger.Fatal: exit status 1)
    errMsg,     \* what logger.Fatal printed: <<step message, underlying error>>
    pc,         \* the statement the program is at: a call site, "main" or "return"
    mainPC,     \* the index in MainOrder of the function main calls next
    m,          \* main's variables
    f,          \* the frame of the function being executed: parameters and locals
    ret,        \* what the function returned to main: [val, err]
    inflight,   \* the requests sent to the provider and not answered yet
    cloud,      \* the provider's resources
    prior,      \* the provider's resources as they were when this run started
    ctxDone,    \* the context of main (6 minute timeout) is done
    uuids,      \* how many times uuid.NewString() was called
    run,        \* which run of the program this is
    trace,      \* this run's history: function calls, requests issued, answers
    logs        \* the lines this run's logger printed: [text, ids]

vars == <<status, errMsg, pc, mainPC, m, f, ret, inflight, cloud, prior,
          ctxDone, uuids, run, trace, logs>>

\* How many times the program is run against the same account.
MaxRuns == 2

-----------------------------------------------------------------------------
(* Constants of main.go *)

AWSAmiID == "ami-01816d07b1128cd2d"
AWSLaunchTemplatePrefix == "webservice-launch-template-"
AWSLaunchTemplateVersion == "$Latest"
AWSSecurityGroupPrefix == "webservice-sg-"
AWSAutoscalingGroupPrefix == "webservice-sg-"
AWSAutoscalingPolicyPrefix == "webservice-sg-"
AWSSecurityGroupDescription == "Security group for port 8080 access"
AWSAutoscalingPolicyType == "TargetTrackingScaling"
AWSMinEC2Count == 2
AWSMaxEC2Count == 5
AWSAutoScalingCPUThreshold == 30

AWSSubnetAvailabilityZones ==
    ("10.0.1.0/24" :> "us-east-1a") @@ ("10.0.2.0/24" :> "us-east-1b")

\* The keys of AWSSubnetAvailabilityZones in the order the map literal
\* lists them.
DeclaredOrder == <<"10.0.1.0/24", "10.0.2.0/24">>

\* The zero value of a Go string or slice, and the nil error.
NoId == <<>>
NoErr == <<>>

-----------------------------------------------------------------------------
(* main's control flow *)

\* MainOrder with the load balancer created before the target group.
MainOrderBalancerFirst ==
    <<"CreateVPC", "CreateInternetGateway", "CreateSubnets",
      "CreateSecurityGroup", "CreateLaunchTemplate", "CreateLoadBalancer",
      "CreateTargetGroup", "CreateAutoscalingGroup", "CreateListener">>

\* MainOrder with the autoscaling group created before the target group it
\* is attached to.
MainOrderGroupFirst ==
    <<"CreateVPC", "CreateInternetGateway", "CreateSubnets",
      "CreateSecurityGroup", "CreateLaunchTemplate", "CreateAutoscalingGroup",
      "CreateTargetGroup", "CreateLoadBalancer", "CreateListener">>

\* MainOrder with the launch template registered before the security group
\* it refers to exists.
MainOrderTemplateFirst ==
    <<"CreateVPC", "CreateInternetGateway", "CreateSubnets",
      "CreateLaunchTemplate", "CreateSecurityGroup", "CreateTargetGroup",
      "CreateAutoscalingGroup", "CreateLoadBalancer", "CreateListener">>

\* The functions main calls, in the order of its statements.
MainOrder ==
    <<"CreateVPC", "CreateInternetGateway", "CreateSubnets",
      "CreateSecurityGroup", "CreateLaunchTemplate", "CreateTargetGroup",
      "CreateAutoscalingGroup", "CreateLoadBalancer", "CreateListener">>

\* The variables of main each function is given as arguments.
Params(fn) ==
    CASE fn = "CreateVPC" -> {}
      [] fn = "CreateInternetGateway" -> {"vpcID"}
      [] fn = "CreateSubnets" -> {"vpcID", "internetGatewayID"}
      [] fn = "CreateSecurityGroup" -> {"vpcID"}
      [] fn = "CreateLaunchTemplate" -> {"securityGroupID"}
      [] fn = "CreateTargetGroup" -> {"vpcID"}
      [] fn = "CreateAutoscalingGroup" ->
            {"launchTemplateID", "targetGroupARN", "subnetIDs"}
      [] fn = "CreateLoadBalancer" -> {"subnetIDs", "securityGroupID"}
      [] fn = "CreateListener" -> {"loadBalancerARN", "targetGroupARN"}

\* Result with the gateway's identifier assigned to vpcID.
ResultGatewayIntoVpcID(fn) ==
    CASE fn = "CreateVPC" -> "vpcID"
      [] fn = "CreateInternetGateway" -> "vpcID"
      [] fn = "CreateSubnets" -> "subnetIDs"
      [] fn = "CreateSecurityGroup" -> "securityGroupID"
      [] fn = "CreateLaunchTemplate" -> "launchTemplateID"
      [] fn = "CreateTargetGroup" -> "targetGroupARN"
      [] fn = "CreateAutoscalingGroup" -> ""
      [] fn = "CreateLoadBalancer" -> "loadBalancerARN"
      [] fn = "CreateListener" -> ""

\* The variable of main that receives the function's result ("" when the
\* function returns an error only).
Result(fn) ==
    CASE fn = "CreateVPC" -> "vpcID"
      [] fn = "CreateInternetGateway" -> "internetGatewayID"
      [] fn = "CreateSubnets" -> "subnetIDs"
      [] fn = "CreateSecurityGroup" -> "securityGroupID"
      [] fn = "CreateLaunchTemplate" -> "launchTemplateID"
      [] fn = "CreateTargetGroup" -> "targetGroupARN"
      [] fn = "CreateAutoscalingGroup" -> ""
      [] fn = "CreateLoadBalancer" -> "loadBalancerARN"
      [] fn = "CreateListener" -> ""

\* The first statement of each function.
Entry(fn) ==
    CASE fn = "CreateVPC" -> "CreateVpc"
      [] fn = "CreateInternetGateway" -> "CreateInternetGateway"
      [] fn = "CreateSubnets" -> "CreateRouteTable"
      [] fn = "CreateSecurityGroup" -> "CreateSecurityGroup"
      [] fn = "CreateLaunchTemplate" -> "ReadFile"
      [] fn = "CreateTargetGroup" -> "CreateTargetGroup"
      [] fn = "CreateAutoscalingGroup" -> "CreateAutoScalingGroup"
      [] fn = "CreateLoadBalancer" -> "CreateLoadBalancer"
      [] fn = "CreateListener" -> "CreateListener"

MainVars ==
    {"vpcID", "internetGatewayID", "subnetIDs", "securityGroupID",
     "launchTemplateID", "targetGroupARN", "loadBalancerARN"}

\* The locals of the functions (beside their parameters).
FrameLocals ==
    {"result", "routeTableID", "subnets", "todo", "cidrBlock",
     "availabilityZone", "subnetID", "sgName", "base64UserData",
     "autoscalingGroupName"}

\* The frame of fn as main's call creates it: the parameters hold main's
\* values, every local its zero value.
Frame(fn) ==
    [k \in MainVars \cup FrameLocals |->
        IF k \in Params(fn) THEN m[k]
        ELSE IF k = "todo" THEN {} ELSE NoId]

\* An entry of the run's history: a function call of main ("call"), a
\* request sent ("issue"), or its answer ("ok" with the identifier the
\* provider assigned, "fail" with the provider's error); expired tells
\* whether main's context was done at that moment.
Event(ev, op, req, why, id) ==
    [ev |-> ev, op |-> op, req |-> req, why |-> why, id |-> id,
     expired |-> ctxDone]


-----------------------------------------------------------------------------
(* The provider, as the call sites of main.go use it *)

\* The identifier the provider assigns to the next resource of a kind,
\* written kind-n.
NewId(kind) == <<kind, "-", cloud.seq + 1>>

Ids(S) == {x.id : x \in S}
Names(S) == {x.name : x \in S}
Find(S, id) == CHOOSE x \in S : x.id = id
Replace(S, old, new) == (S \ {old}) \cup {new}

\* strings.Join(subnetIDs, ","), and the provider's reading of the list.
Comma == <<",">>
RECURSIVE Join(_)
Join(s) ==
    IF Len(s) = 0 THEN <<>>
    ELSE IF Len(s) = 1 THEN <<s[1]>>
    ELSE <<s[1], Comma>> \o Join(Tail(s))
Split(z) == SelectSeq(z, LAMBDA x : x # Comma)
Range(s) == {s[i] : i \in DOMAIN s}

\* The provider can carry the request out: what it refers to exists, and
\* the name it asks for is free.
Accepts(req) ==
    CASE req.op = "CreateVpc" -> TRUE
      [] req.op = "ModifyVpcAttribute" -> req.vpc \in Ids(cloud.vpcs)
      [] req.op = "CreateInternetGateway" -> TRUE
      [] req.op = "AttachInternetGateway" ->
            /\ req.igw \in Ids(cloud.igws)
            /\ req.vpc \in Ids(cloud.vpcs)
            /\ Find(cloud.igws, req.igw).vpc = NoId
            /\ \A g \in cloud.igws : g.vpc # req.vpc
      [] req.op = "CreateRouteTable" -> req.vpc \in Ids(cloud.vpcs)
      [] req.op = "CreateRoute" ->
            /\ req.rtb \in Ids(cloud.rtbs)
            /\ req.igw \in Ids(cloud.igws)
            /\ Find(cloud.igws, req.igw).vpc = Find(cloud.rtbs, req.rtb).vpc
            /\ \A r \in Find(cloud.rtbs, req.rtb).routes : r.dest # req.dest
      [] req.op = "CreateSubnet" ->
            /\ req.vpc \in Ids(cloud.vpcs)
            /\ \A s \in cloud.subnets : s.vpc = req.vpc => s.cidr # req.cidr
      [] req.op = "ModifySubnetAttribute" -> req.subnet \in Ids(cloud.subnets)
      [] req.op = "AssociateRouteTable" ->
            /\ req.rtb \in Ids(cloud.rtbs)
            /\ req.subnet \in Ids(cloud.subnets)
            /\ Find(cloud.rtbs, req.rtb).vpc = Find(cloud.subnets, req.subnet).vpc
      [] req.op = "CreateSecurityGroup" ->
            /\ req.vpc \in Ids(cloud.vpcs)
            /\ \A g \in cloud.sgs : g.vpc = req.vpc => g.name # req.name
      [] req.op = "AuthorizeSecurityGroupIngress" -> req.sg \in Ids(cloud.sgs)
      [] req.op = "CreateLaunchTemplate" -> req.name \notin Names(cloud.lts)
      [] req.op = "CreateTargetGroup" ->
            /\ req.vpc \in Ids(cloud.vpcs)
            /\ req.name \notin Names(cloud.tgs)
      [] req.op = "CreateAutoScalingGroup" ->
            /\ req.name \notin Names(cloud.asgs)
            /\ req.lt \in Ids(cloud.lts)
            /\ Range(req.tgs) \subseteq Ids(cloud.tgs)
            /\ Range(Split(req.zones)) # {}
            /\ Range(Split(req.zones)) \subseteq Ids(cloud.subnets)
      [] req.op = "PutScalingPolicy" -> req.asg \in Names(cloud.asgs)
      [] req.op = "CreateLoadBalancer" ->
            /\ req.name \notin Names(cloud.lbs)
            /\ Range(req.subnets) # {}
            /\ Range(req.subnets) \subseteq Ids(cloud.subnets)
            /\ Range(req.sgs) \subseteq Ids(cloud.sgs)
      [] req.op = "CreateListener" ->
            /\ req.lb \in Ids(cloud.lbs)
            /\ \A a \in Range(req.actions) :
                  Range(a.targetGroups) \subseteq Ids(cloud.tgs)

\* The request asks for a name that is in use.
NameInUse(req) ==
    CASE req.op = "CreateSecurityGroup" ->
            \E g \in cloud.sgs : g.vpc = req.vpc /\ g.name = req.name
      [] req.op = "CreateLaunchTemplate" -> req.name \in Names(cloud.lts)
      [] req.op = "CreateTargetGroup" -> req.name \in Names(cloud.tgs)
      [] req.op = "CreateAutoScalingGroup" -> req.name \in Names(cloud.asgs)
      [] req.op = "CreateLoadBalancer" -> req.name \in Names(cloud.lbs)
      [] OTHER -> FALSE

\* The identifier the answer to a create request carries.
Assigned(req) ==
    CASE req.op = "CreateVpc" -> NewId("vpc")
      [] req.op = "CreateInternetGateway" -> NewId("igw")
      [] req.op = "CreateRouteTable" -> NewId("rtb")
      [] req.op = "CreateSubnet" -> NewId("subnet")
      [] req.op = "CreateSecurityGroup" -> NewId("sg")
      [] req.op = "CreateLaunchTemplate" -> NewId("lt")
      [] req.op = "CreateTargetGroup" -> NewId("targetgroup")
      [] req.op = "CreateLoadBalancer" -> NewId("loadbalancer")
      [] req.op = "CreateListener" -> NewId("listener")
      [] OTHER -> NoId

\* The provider's resources once the request is carried out.
Apply(req) ==
    LET c == [cloud EXCEPT !.seq = IF Assigned(req) = NoId THEN @ ELSE @ + 1]
        id == Assigned(req)
    IN
    CASE req.op = "CreateVpc" ->
            [c EXCEPT !.vpcs = @ \cup
                {[id |-> id, cidr |-> req.cidr, dnsHostnames |-> FALSE]}]
      [] req.op = "ModifyVpcAttribute" ->
            LET v == Find(cloud.vpcs, req.vpc) IN
            [c EXCEPT !.vpcs = Replace(@, v,
                [v EXCEPT !.dnsHostnames = req.enableDnsHostnames])]
      [] req.op = "CreateInternetGateway" ->
            [c EXCEPT !.igws = @ \cup {[id |-> id, vpc |-> NoId]}]
      [] req.op = "AttachInternetGateway" ->
            LET g == Find(cloud.igws, req.igw) IN
            [c EXCEPT !.igws = Replace(@, g, [g EXCEPT !.vpc = req.vpc])]
      [] req.op = "CreateRouteTable" ->
            [c EXCEPT !.rtbs = @ \cup
                {[id |-> id, vpc |-> req.vpc, routes |-> {}, assoc |-> {}]}]
      [] req.op = "CreateRoute" ->
            LET t == Find(cloud.rtbs, req.rtb) IN
            [c EXCEPT !.rtbs = Replace(@, t,
                [t EXCEPT !.routes = @ \cup
                    {[dest |-> req.dest, gateway |-> req.igw]}])]
      [] req.op = "CreateSubnet" ->
            [c EXCEPT !.subnets = @ \cup
                {[id |-> id, vpc |-> req.vpc, cidr |-> req.cidr,
                  az |-> req.az, mapPublicIpOnLaunch |-> FALSE]}]
      [] req.op = "ModifySubnetAttribute" ->
            LET s == Find(cloud.subnets, req.subnet) IN
            [c EXCEPT !.subnets = Replace(@, s,
                [s EXCEPT !.mapPublicIpOnLaunch = req.mapPublicIpOnLaunch])]
      [] req.op = "AssociateRouteTable" ->
            LET t == Find(cloud.rtbs, req.rtb) IN
            [c EXCEPT !.rtbs = Replace(@, t,
                [t EXCEPT !.assoc = @ \cup {req.subnet}])]
      [] req.op = "CreateSecurityGroup" ->
            [c EXCEPT !.sgs = @ \cup
                {[id |-> id, name |-> req.name, description |-> req.description,
                  vpc |-> req.vpc, ingress |-> {}]}]
      [] req.op = "AuthorizeSecurityGroupIngress" ->
            LET g == Find(cloud.sgs, req.sg) IN
            [c EXCEPT !.sgs = Replace(@, g,
                [g EXCEPT !.ingress = @ \cup Range(req.ipPermissions)])]
      [] req.op = "CreateLaunchTemplate" ->
            [c EXCEPT !.lts = @ \cup
                {[id |-> id, name |-> req.name, imageId |-> req.imageId,
                  instanceType |-> req.instanceType, sgs |-> req.sgs,
                  userData |-> req.userData]}]
      [] req.op = "CreateTargetGroup" ->
            [c EXCEPT !.tgs = @ \cup
                {[id |-> id, name |-> req.name, protocol |-> req.protocol,
                  port |-> req.port, vpc |-> req.vpc,
                  targetType |-> req.targetType]}]
      [] req.op = "CreateAutoScalingGroup" ->
            [c EXCEPT !.asgs = @ \cup
                {[name |-> req.name, lt |-> req.lt, version |-> req.version,
                  min |-> req.min, max |-> req.max, tgs |-> Range(req.tgs),
                  subnets |-> Split(req.zones)]}]
      [] req.op = "PutScalingPolicy" ->
            [c EXCEPT !.policies = @ \cup
                {[asg |-> req.asg, name |-> req.name, type |-> req.type,
                  targetValue |-> req.targetValue, metric |-> req.metric]}]
      [] req.op = "CreateLoadBalancer" ->
            [c EXCEPT !.lbs = @ \cup
                {[id |-> id, name |-> req.name, scheme |-> req.scheme,
                  subnets |-> req.subnets, sgs |-> req.sgs,
                  ipAddressType |-> req.ipAddressType, type |-> req.type]}]
      [] req.op = "CreateListener" ->
            [c EXCEPT !.listeners = @ \cup
                {[id |-> id, lb |-> req.lb, protocol |-> req.protocol,
                  port |-> req.port, actions |-> req.actions]}]

\* The answers the program may get to a request in flight.  A request sent
\* under a context that is done is answered with the context's error;
\* otherwise the provider may reject it, and may carry it out if it can.
Outcomes(req) ==
    IF req.ctx = "ctx" /\ ctxDone
    THEN {[ok |-> FALSE, why |-> "context deadline exceeded",
           cloud |-> cloud, id |-> NoId]}
    ELSE IF NameInUse(req)
    THEN {[ok |-> FALSE, why |-> "name in use", cloud |-> cloud, id |-> NoId]}
    ELSE {[ok |-> FALSE, why |-> "rejected", cloud |-> cloud, id |-> NoId]}
         \cup (IF Accepts(req)
               THEN {[ok |-> TRUE, why |-> "", cloud |-> Apply(req),
                      id |-> Assigned(req)]}
               ELSE {})

EmptyCloud ==
    [seq |-> 0, vpcs |-> {}, igws |-> {}, rtbs |-> {}, subnets |-> {},
     sgs |-> {}, lts |-> {}, tgs |-> {}, asgs |-> {}, policies |-> {},
     lbs |-> {}, listeners |-> {}]

-----------------------------------------------------------------------------
(* Steps shared by the call sites *)

Val(v) == [val |-> v, err |-> NoErr]
\* fmt.Errorf("<msg>: %w", err)
Err(msg, why) == [val |-> NoId, err |-> <<msg, why>>]

\* The value of the k-th uuid.NewString() of this step: one never seen before.
Uuid(k) == uuids + k

\* logger.Printf / logger.Println: a line of text and the identifiers
\* formatted into it.
Line(text, ids) == [text |-> text, ids |-> ids]

\* The line the code prints after the call req came back well with answer r.
LogLine(req, r) ==
    CASE req.op = "CreateVpc" -> Line("VPC created with ID", <<r.id>>)
      [] req.op = "ModifyVpcAttribute" ->
            Line("DNS hostnames enabled for VPC with ID", <<req.vpc>>)
      [] req.op = "CreateInternetGateway" ->
            Line("Internet gateway created with ID", <<r.id>>)
      [] req.op = "AttachInternetGateway" ->
            Line("Internet gateway attached to VPC with ID", <<req.igw, req.vpc>>)
      [] req.op = "CreateRouteTable" ->
            Line("Route table created with ID", <<r.id>>)
      [] req.op = "CreateRoute" ->
            Line("Created route to Internet Gateway in route table",
                 <<req.igw, req.rtb>>)
      [] req.op = "CreateSubnet" -> Line("Subnet created with ID", <<r.id>>)
      [] req.op = "ModifySubnetAttribute" ->
            Line("Enabled auto-assign public IPv4 for subnet", <<req.subnet>>)
      [] req.op = "AssociateRouteTable" ->
            Line("Associated route table with subnet", <<req.rtb, req.subnet>>)
      [] req.op = "CreateSecurityGroup" ->
            Line("Created security group with ID", <<r.id>>)
      [] req.op = "AuthorizeSecurityGroupIngress" ->
            Line("Added inbound (ingress) rule for port 8080 to security group with ID",
                 <<req.sg>>)
      [] req.op = "CreateLaunchTemplate" ->
            Line("Launch template created with ID", <<r.id>>)
      [] req.op = "CreateTargetGroup" ->
            Line("Target group created with ARN", <<r.id>>)
      [] req.op = "CreateAutoScalingGroup" ->
            Line("Autoscaling group created with name", <<req.name>>)
      [] req.op = "PutScalingPolicy" ->
            Line("Autoscaling policy created successfully", <<>>)
      [] req.op = "CreateLoadBalancer" ->
            Line("Load balancer created with ARN", <<r.id>>)
      [] req.op = "CreateListener" -> Line("Listener created successfully", <<>>)

\* The program, at call site `site`, sends req and blocks; newF is the
\* frame with what the statements before the call assigned, n the number
\* of uuids they drew.
Issue(site, req, newF, n) ==
    /\ status = "running"
    /\ pc = site
    /\ inflight = {}
    /\ inflight' = inflight \cup {req}
    /\ f' = newF
    /\ uuids' = uuids + n
    /\ trace' = Append(trace, Event("issue", req.op, req, "", NoId))
    /\ UNCHANGED <<status, errMsg, pc, mainPC, m, ret, cloud, prior, ctxDone,
                   run, logs>>

\* The answers the call at `site` may now return with.
Replies(site) ==
    IF status = "running" /\ pc = site /\ inflight # {}
    THEN Outcomes(CHOOSE q \in inflight : TRUE)
    ELSE {}

\* Resume printing the line of the call whether the call failed or not.
ResumeLogsFailure(r, newF, nextPc, newRet) ==
    LET req == CHOOSE q \in inflight : TRUE IN
    /\ inflight' = inflight \ {req}
    /\ cloud' = r.cloud
    /\ trace' = Append(trace,
                  Event(IF r.ok THEN "ok" ELSE "fail", req.op, req, r.why, r.id))
    /\ logs' = Append(logs, LogLine(req, r))
    /\ f' = newF
    /\ pc' = nextPc
    /\ ret' = newRet
    /\ UNCHANGED <<status, errMsg, mainPC, m, prior, ctxDone, uuids, run>>

\* The call returns with answer r and the code after it runs up to the
\* next call site (or to the function's return).
Resume(r, newF, nextPc, newRet) ==
    LET req == CHOOSE q \in inflight : TRUE IN
    /\ inflight' = inflight \ {req}
    /\ cloud' = r.cloud
    /\ trace' = Append(trace,
                  Event(IF r.ok THEN "ok" ELSE "fail", req.op, req, r.why, r.id))
    /\ logs' = IF r.ok THEN Append(logs, LogLine(req, r)) ELSE logs
    /\ f' = newF
    /\ pc' = nextPc
    /\ ret' = newRet
    /\ UNCHANGED <<status, errMsg, mainPC, m, prior, ctxDone, uuids, run>>

\* Fail with the error dropped: the function returns as if the call had
\* succeeded.
FailSwallowed(r, msg) == Resume(r, f, "return", Val(NoId))

\* if err != nil { return ..., fmt.Errorf(msg, err) }
Fail(r, msg) == Resume(r, f, "return", Err(msg, r.why))

-----------------------------------------------------------------------------
(* main *)

\* godotenv.Load(EnvFilePath)
LoadEnv ==
    /\ status = "running"
    /\ pc = "godotenv.Load"
    /\ \E ok \in BOOLEAN :
          IF ok
          THEN /\ pc' = "LoadDefaultConfig"
               /\ logs' = Append(logs,
                             Line("Environment variables loaded successfully", <<>>))
               /\ UNCHANGED <<status, errMsg>>
          ELSE /\ status' = "fatal"
               /\ errMsg' = <<"Error loading .env file", "open .env">>
               /\ UNCHANGED <<pc, logs>>
    /\ UNCHANGED <<mainPC, m, f, ret, inflight, cloud, prior, ctxDone, uuids,
                   run, trace>>

\* config.LoadDefaultConfig(ctx, ...): its error is printed as it is.
LoadConfig ==
    /\ status = "running"
    /\ pc = "LoadDefaultConfig"
    /\ \E ok \in BOOLEAN :
          IF ok
          THEN /\ pc' = "main"
               /\ logs' = Append(logs,
                             Line("AWS configuration loaded successfully", <<>>))
               /\ UNCHANGED <<status, errMsg>>
          ELSE /\ status' = "fatal"
               /\ errMsg' = <<"", "load config">>
               /\ UNCHANGED <<pc, logs>>
    /\ UNCHANGED <<mainPC, m, f, ret, inflight, cloud, prior, ctxDone, uuids,
                   run, trace>>

\* main calls the next function with its arguments.
MainCall ==
    /\ status = "running"
    /\ pc = "main"
    /\ mainPC <= Len(MainOrder)
    /\ LET fn == MainOrder[mainPC] IN
          /\ pc' = Entry(fn)
          /\ f' = Frame(fn)
          /\ trace' = Append(trace,
                        Event("call", fn, [k \in Params(fn) |-> m[k]], "", NoId))
    /\ UNCHANGED <<status, errMsg, mainPC, m, ret, inflight, cloud, prior,
                   ctxDone, uuids, run, logs>>

\* The function returned: if err != nil { logger.Fatal(err) }, else main
\* keeps the result and goes on.
MainReturn ==
    /\ status = "running"
    /\ pc = "return"
    /\ LET fn == MainOrder[mainPC] IN
          IF ret.err # NoErr
          THEN /\ status' = "fatal"
               /\ errMsg' = ret.err
               /\ UNCHANGED <<pc, mainPC, m>>
          ELSE /\ m' = IF Result(fn) = "" THEN m
                       ELSE [m EXCEPT ![Result(fn)] = ret.val]
               /\ mainPC' = mainPC + 1
               /\ pc' = "main"
               /\ UNCHANGED <<status, errMsg>>
    /\ UNCHANGED <<f, ret, inflight, cloud, prior, ctxDone, uuids, run, trace,
                   logs>>

\* logger.Println("All AWS resources created successfully"); main returns.
MainDone ==
    /\ status = "running"
    /\ pc = "main"
    /\ mainPC > Len(MainOrder)
    /\ status' = "ok"
    /\ logs' = Append(logs, Line("All AWS resources created successfully", <<>>))
    /\ UNCHANGED <<errMsg, pc, mainPC, m, f, ret, inflight, cloud, prior,
                   ctxDone, uuids, run, trace>>

\* The 6 minute timeout of main's context runs out.
Deadline ==
    /\ status = "running"
    /\ pc # "godotenv.Load"
    /\ ~ctxDone
    /\ ctxDone' = TRUE
    /\ UNCHANGED <<status, errMsg, pc, mainPC, m, f, ret, inflight, cloud,
                   prior, uuids, run, trace, logs>>

\* Statements of a function that call no provider; they print `lines`.
Step(site, newF, nextPc, newRet, lines) ==
    /\ status = "running"
    /\ pc = site
    /\ f' = newF
    /\ pc' = nextPc
    /\ ret' = newRet
    /\ logs' = logs \o lines
    /\ UNCHANGED <<status, errMsg, mainPC, m, inflight, cloud, prior, ctxDone,
                   uuids, run, trace>>

\* A statement that prints nothing.
Local(site, newF, nextPc, newRet) == Step(site, newF, nextPc, newRet, <<>>)

-----------------------------------------------------------------------------
(* CreateVPC *)

CreateVpcInput ==
    [op |-> "CreateVpc", ctx |-> "ctx", cidr |-> "10.0.0.0/16"]

ModifyVpcAttributeInput ==
    [op |-> "ModifyVpcAttribute", ctx |-> "ctx", vpc |-> f.result,
     enableDnsHostnames |-> TRUE]

CreateVPC ==
    \/ Issue("CreateVpc", CreateVpcInput, f, 0)
    \/ \E r \in Replies("CreateVpc") :
          IF r.ok
          THEN Resume(r, [f EXCEPT !.result = r.id], "ModifyVpcAttribute", ret)
          ELSE Fail(r, "error creating VPC")
    \/ Issue("ModifyVpcAttribute", ModifyVpcAttributeInput, f, 0)
    \/ \E r \in Replies("ModifyVpcAttribute") :
          IF r.ok
          THEN Resume(r, f, "return", Val(f.result))
          ELSE Fail(r, "error enabling DNS hostnames")

-----------------------------------------------------------------------------
(* CreateInternetGateway *)

CreateInternetGatewayInput ==
    [op |-> "CreateInternetGateway", ctx |-> "ctx"]

\* This call is given context.TODO(), not the function's ctx.
AttachInternetGatewayInput ==
    [op |-> "AttachInternetGateway", ctx |-> "TODO", igw |-> f.result,
     vpc |-> f.vpcID]

CreateInternetGateway ==
    \/ Issue("CreateInternetGateway", CreateInternetGatewayInput, f, 0)
    \/ \E r \in Replies("CreateInternetGateway") :
          IF r.ok
          THEN Resume(r, [f EXCEPT !.result = r.id], "AttachInternetGateway", ret)
          ELSE Fail(r, "error creating internet gateway")
    \/ Issue("AttachInternetGateway", AttachInternetGatewayInput, f, 0)
    \/ \E r \in Replies("AttachInternetGateway") :
          IF r.ok
          THEN Resume(r, f, "return", Val(f.result))
          ELSE Fail(r, "error attaching internet gateway to VPC")

-----------------------------------------------------------------------------
(* CreateSubnets *)

CreateRouteTableInput ==
    [op |-> "CreateRouteTable", ctx |-> "ctx", vpc |-> f.vpcID]

CreateRouteInput ==
    [op |-> "CreateRoute", ctx |-> "ctx", rtb |-> f.routeTableID,
     dest |-> "0.0.0.0/0", igw |-> f.internetGatewayID]

CreateSubnetInput ==
    [op |-> "CreateSubnet", ctx |-> "ctx", vpc |-> f.vpcID,
     cidr |-> f.cidrBlock, az |-> f.availabilityZone]

ModifySubnetAttributeInput ==
    [op |-> "ModifySubnetAttribute", ctx |-> "ctx", subnet |-> f.subnetID,
     mapPublicIpOnLaunch |-> TRUE]

AssociateRouteTableInput ==
    [op |-> "AssociateRouteTable", ctx |-> "ctx", rtb |-> f.routeTableID,
     subnet |-> f.subnetID]

\* RangeSubnets with the return inside the loop: it returns after the
\* first subnet.
RangeSubnetsReturnsEarly ==
    IF f.todo = {} \/ f.subnets # <<>>
    THEN Local("range", f, "return", Val(f.subnets))
    ELSE \E c \in f.todo :
            Local("range",
                  [f EXCEPT !.cidrBlock = c,
                            !.availabilityZone = AWSSubnetAvailabilityZones[c],
                            !.todo = @ \ {c}],
                  "CreateSubnet", ret)

\* RangeSubnets that does not move on: a key it has taken may be taken
\* again.
RangeSubnetsKeepsKey ==
    IF f.todo = {}
    THEN Local("range", f, "return", Val(f.subnets))
    ELSE \E c \in f.todo :
            Local("range",
                  [f EXCEPT !.cidrBlock = c,
                            !.availabilityZone = AWSSubnetAvailabilityZones[c]],
                  "CreateSubnet", ret)

\* for cidrBlock, availabilityZone := range AWSSubnetAvailabilityZones: a
\* Go map is ranged over in an unspecified order, each key once.
RangeSubnets ==
    IF f.todo = {}
    THEN Local("range", f, "return", Val(f.subnets))
    ELSE \E c \in f.todo :
            Local("range",
                  [f EXCEPT !.cidrBlock = c,
                            !.availabilityZone = AWSSubnetAvailabilityZones[c],
                            !.todo = @ \ {c}],
                  "CreateSubnet", ret)

\* CreateSubnets going on with the next pair when a call for a pair
\* fails (continue instead of return).
CreateSubnetsSkipsFailedPair ==
    \/ Issue("CreateRouteTable", CreateRouteTableInput, f, 0)
    \/ \E r \in Replies("CreateRouteTable") :
          IF r.ok
          THEN Resume(r, [f EXCEPT !.routeTableID = r.id], "CreateRoute", ret)
          ELSE Fail(r, "error creating route table")
    \/ Issue("CreateRoute", CreateRouteInput, f, 0)
    \/ \E r \in Replies("CreateRoute") :
          IF r.ok
          THEN Resume(r, [f EXCEPT !.todo = DOMAIN AWSSubnetAvailabilityZones],
                      "range", ret)
          ELSE Fail(r, "error creating route to internet gateway")
    \/ RangeSubnets
    \/ Issue("CreateSubnet", CreateSubnetInput, f, 0)
    \/ \E r \in Replies("CreateSubnet") :
          IF r.ok
          THEN Resume(r, [f EXCEPT !.subnetID = r.id], "ModifySubnetAttribute", ret)
          ELSE Resume(r, f, "range", ret)
    \/ Issue("ModifySubnetAttribute", ModifySubnetAttributeInput, f, 0)
    \/ \E r \in Replies("ModifySubnetAttribute") :
          IF r.ok
          THEN Resume(r, f, "AssociateRouteTable", ret)
          ELSE Resume(r, f, "range", ret)
    \/ Issue("AssociateRouteTable", AssociateRouteTableInput, f, 0)
    \/ \E r \in Replies("AssociateRouteTable") :
          IF r.ok
          THEN Resume(r, [f EXCEPT !.subnets = Append(@, f.subnetID)],
                      "range", ret)
          ELSE Resume(r, f, "range", ret)

CreateSubnets ==
    \/ Issue("CreateRouteTable", CreateRouteTableInput, f, 0)
    \/ \E r \in Replies("CreateRouteTable") :
          IF r.ok
          THEN Resume(r, [f EXCEPT !.routeTableID = r.id], "CreateRoute", ret)
          ELSE Fail(r, "error creating route table")
    \/ Issue("CreateRoute", CreateRouteInput, f, 0)
    \/ \E r \in Replies("CreateRoute") :
          IF r.ok
          THEN Resume(r, [f EXCEPT !.todo = DOMAIN AWSSubnetAvailabilityZones],
                      "range", ret)
          ELSE Fail(r, "error creating route to internet gateway")
    \/ RangeSubnets
    \/ Issue("CreateSubnet", CreateSubnetInput, f, 0)
    \/ \E r \in Replies("CreateSubnet") :
          IF r.ok
          THEN Resume(r, [f EXCEPT !.subnetID = r.id], "ModifySubnetAttribute", ret)
          ELSE Fail(r, "error creating subnet")
    \/ Issue("ModifySubnetAttribute", ModifySubnetAttributeInput, f, 0)
    \/ \E r \in Replies("ModifySubnetAttribute") :
          IF r.ok
          THEN Resume(r, f, "AssociateRouteTable", ret)
          ELSE Fail(r, "error enabling auto-assign public IPv4")
    \/ Issue("AssociateRouteTable", AssociateRouteTableInput, f, 0)
    \/ \E r \in Replies("AssociateRouteTable") :
          IF r.ok
          THEN Resume(r, [f EXCEPT !.subnets = Append(@, f.subnetID)],
                      "range", ret)
          ELSE Fail(r, "error associating route table")

-----------------------------------------------------------------------------
(* CreateSecurityGroup *)

CreateSecurityGroupInput ==
    [op |-> "CreateSecurityGroup", ctx |-> "ctx",
     name |-> <<AWSSecurityGroupPrefix, Uuid(1)>>,
     description |-> AWSSecurityGroupDescription, vpc |-> f.vpcID]

IpPermission(port) ==
    [ipProtocol |-> "tcp", fromPort |-> port, toPort |-> port,
     ipRanges |-> <<"0.0.0.0/0">>]

AuthorizeSecurityGroupIngressInput ==
    [op |-> "AuthorizeSecurityGroupIngress", ctx |-> "ctx", sg |-> f.result,
     ipPermissions |-> <<IpPermission(8080), IpPermission(80), IpPermission(443)>>]

CreateSecurityGroup ==
    \/ Issue("CreateSecurityGroup", CreateSecurityGroupInput,
             [f EXCEPT !.sgName = CreateSecurityGroupInput.name], 1)
    \/ \E r \in Replies("CreateSecurityGroup") :
          IF r.ok
          THEN Resume(r, [f EXCEPT !.result = r.id],
                      "AuthorizeSecurityGroupIngress", ret)
          ELSE Fail(r, "error creating security group")
    \/ Issue("AuthorizeSecurityGroupIngress", AuthorizeSecurityGroupIngressInput, f, 0)
    \/ \E r \in Replies("AuthorizeSecurityGroupIngress") :
          IF r.ok
          THEN Resume(r, f, "return", Val(f.result))
          ELSE Fail(r, "error adding inbound (ingress) rule for port 8080")

-----------------------------------------------------------------------------
(* CreateLaunchTemplate *)

\* What user_data.sh holds, when it can be read.
UserDataBytes == <<"user_data.sh">>

\* base64.StdEncoding.EncodeToString
EncodeToString(bytes) == <<"base64", bytes>>

CreateLaunchTemplateInput ==
    [op |-> "CreateLaunchTemplate", ctx |-> "ctx",
     userData |-> f.base64UserData, imageId |-> AWSAmiID,
     instanceType |-> "t2.micro", sgs |-> <<f.securityGroupID>>,
     name |-> <<AWSLaunchTemplatePrefix, Uuid(1)>>]

\* os.ReadFile(UserDataScript)
ReadFile ==
    \E ok \in BOOLEAN :
        IF ok
        THEN Step("ReadFile",
                  [f EXCEPT !.base64UserData = EncodeToString(UserDataBytes)],
                  "CreateLaunchTemplate", ret,
                  <<Line("user_data.sh file read successfully", <<>>)>>)
        ELSE Local("ReadFile", f, "return",
                   Err("error reading user_data.sh file", "open user_data.sh"))

CreateLaunchTemplate ==
    \/ ReadFile
    \/ Issue("CreateLaunchTemplate", CreateLaunchTemplateInput, f, 1)
    \/ \E r \in Replies("CreateLaunchTemplate") :
          IF r.ok
          THEN Resume(r, f, "return", Val(r.id))
          ELSE Fail(r, "error creating launch template")

-----------------------------------------------------------------------------
(* CreateTargetGroup *)

CreateTargetGroupInput ==
    [op |-> "CreateTargetGroup", ctx |-> "ctx",
     name |-> "webservice-target-group", protocol |-> "HTTP", port |-> 8080,
     vpc |-> f.vpcID, targetType |-> "instance"]

CreateTargetGroup ==
    \/ Issue("CreateTargetGroup", CreateTargetGroupInput, f, 0)
    \/ \E r \in Replies("CreateTargetGroup") :
          IF r.ok
          THEN Resume(r, f, "return", Val(r.id))
          ELSE Fail(r, "error creating target group")

-----------------------------------------------------------------------------
(* CreateAutoscalingGroup *)

\* CreateAutoScalingGroupInput with MinSize and MaxSize the other way round.
CreateAutoScalingGroupInputSwappedSizes ==
    [op |-> "CreateAutoScalingGroup", ctx |-> "ctx",
     name |-> <<AWSAutoscalingGroupPrefix, Uuid(1)>>,
     lt |-> f.launchTemplateID, version |-> AWSLaunchTemplateVersion,
     min |-> AWSMaxEC2Count, max |-> AWSMinEC2Count,
     tgs |-> <<f.targetGroupARN>>, zones |-> Join(f.subnetIDs)]

CreateAutoScalingGroupInput ==
    [op |-> "CreateAutoScalingGroup", ctx |-> "ctx",
     name |-> <<AWSAutoscalingGroupPrefix, Uuid(1)>>,
     lt |-> f.launchTemplateID, version |-> AWSLaunchTemplateVersion,
     min |-> AWSMinEC2Count, max |-> AWSMaxEC2Count,
     tgs |-> <<f.targetGroupARN>>, zones |-> Join(f.subnetIDs)]

PutScalingPolicyInput ==
    [op |-> "PutScalingPolicy", ctx |-> "ctx", asg |-> f.autoscalingGroupName,
     name |-> <<AWSAutoscalingPolicyPrefix, Uuid(1)>>,
     type |-> AWSAutoscalingPolicyType,
     targetValue |-> AWSAutoScalingCPUThreshold,
     metric |-> "ASGAverageCPUUtilization"]

\* CreateAutoscalingGroup wrapping the policy's error with the message of
\* the group's.
CreateAutoscalingGroupOneMessage ==
    \/ Issue("CreateAutoScalingGroup", CreateAutoScalingGroupInput,
             [f EXCEPT !.autoscalingGroupName = CreateAutoScalingGroupInput.name], 1)
    \/ \E r \in Replies("CreateAutoScalingGroup") :
          IF r.ok
          THEN Resume(r, f, "PutScalingPolicy", ret)
          ELSE Fail(r, "error creating autoscaling group")
    \/ Issue("PutScalingPolicy", PutScalingPolicyInput, f, 1)
    \/ \E r \in Replies("PutScalingPolicy") :
          IF r.ok
          THEN Resume(r, f, "return", Val(NoId))
          ELSE Fail(r, "error creating autoscaling group")

CreateAutoscalingGroup ==
    \/ Issue("CreateAutoScalingGroup", CreateAutoScalingGroupInput,
             [f EXCEPT !.autoscalingGroupName = CreateAutoScalingGroupInput.name], 1)
    \/ \E r \in Replies("CreateAutoScalingGroup") :
          IF r.ok
          THEN Resume(r, f, "PutScalingPolicy", ret)
          ELSE Fail(r, "error creating autoscaling group")
    \/ Issue("PutScalingPolicy", PutScalingPolicyInput, f, 1)
    \/ \E r \in Replies("PutScalingPolicy") :
          IF r.ok
          THEN Resume(r, f, "return", Val(NoId))
          ELSE Fail(r, "error creating autoscaling policy")

-----------------------------------------------------------------------------
(* CreateLoadBalancer *)

\* CreateLoadBalancerInput with the first subnet only.
CreateLoadBalancerInputFirstSubnet ==
    [op |-> "CreateLoadBalancer", ctx |-> "ctx",
     name |-> "webservice-load-balancer", scheme |-> "internet-facing",
     subnets |-> SubSeq(f.subnetIDs, 1, 1), sgs |-> <<f.securityGroupID>>,
     ipAddressType |-> "ipv4", type |-> "application"]

CreateLoadBalancerInput ==
    [op |-> "CreateLoadBalancer", ctx |-> "ctx",
     name |-> "webservice-load-balancer", scheme |-> "internet-facing",
     subnets |-> f.subnetIDs, sgs |-> <<f.securityGroupID>>,
     ipAddressType |-> "ipv4", type |-> "application"]

\* CreateLoadBalancer returning a nil error when the call failed.
CreateLoadBalancerNilError ==
    \/ Issue("CreateLoadBalancer", CreateLoadBalancerInput, f, 0)
    \/ \E r \in Replies("CreateLoadBalancer") :
          Resume(r, f, "return", Val(r.id))

CreateLoadBalancer ==
    \/ Issue("CreateLoadBalancer", CreateLoadBalancerInput, f, 0)
    \/ \E r \in Replies("CreateLoadBalancer") :
          IF r.ok
          THEN Resume(r, f, "return", Val(r.id))
          ELSE Fail(r, "error creating load balancer")

-----------------------------------------------------------------------------
(* CreateListener *)

\* CreateListenerInput with the two ARNs the other way round.
CreateListenerInputSwapped ==
    [op |-> "CreateListener", ctx |-> "ctx", lb |-> f.targetGroupARN,
     protocol |-> "HTTP", port |-> 80,
     actions |-> <<[type |-> "forward",
                    targetGroups |-> <<f.loadBalancerARN>>]>>]

CreateListenerInput ==
    [op |-> "CreateListener", ctx |-> "ctx", lb |-> f.loadBalancerARN,
     protocol |-> "HTTP", port |-> 80,
     actions |-> <<[type |-> "forward",
                    targetGroups |-> <<f.targetGroupARN>>]>>]

CreateListener ==
    \/ Issue("CreateListener", CreateListenerInput, f, 0)
    \/ \E r \in Replies("CreateListener") :
          IF r.ok
          THEN Resume(r, f, "return", Val(NoId))
          ELSE Fail(r, "error creating listener")

-----------------------------------------------------------------------------
(* The program as a whole *)

ZeroMain == [k \in MainVars |-> NoId]
ZeroFrame == [k \in MainVars \cup FrameLocals |-> IF k = "todo" THEN {} ELSE NoId]

\* The process as it starts, against the provider's resources c.
Start(c, n, u) ==
    /\ status = "running"
    /\ errMsg = NoErr
    /\ pc = "godotenv.Load"
    /\ mainPC = 1
    /\ m = ZeroMain
    /\ f = ZeroFrame
    /\ ret = Val(NoId)
    /\ inflight = {}
    /\ cloud = c
    /\ prior = c
    /\ ctxDone = FALSE
    /\ uuids = u
    /\ run = n
    /\ trace = <<>>
    /\ logs = <<>>

Init == Start(EmptyCloud, 1, 0)

\* The program is run again after a run that ended well; the provider
\* still holds what that run created.
Rerun ==
    /\ status = "ok"
    /\ run < MaxRuns
    /\ status' = "running"
    /\ errMsg' = NoErr
    /\ pc' = "godotenv.Load"
    /\ mainPC' = 1
    /\ m' = ZeroMain
    /\ f' = ZeroFrame
    /\ ret' = Val(NoId)
    /\ inflight' = {}
    /\ prior' = cloud
    /\ ctxDone' = FALSE
    /\ run' = run + 1
    /\ trace' = <<>>
    /\ logs' = <<>>
    /\ UNCHANGED <<cloud, uuids>>

Next ==
    \/ LoadEnv
    \/ LoadConfig
    \/ MainCall
    \/ MainReturn
    \/ MainDone
    \/ Deadline
    \/ CreateVPC
    \/ CreateInternetGateway
    \/ CreateSubnets
    \/ CreateSecurityGroup
    \/ CreateLaunchTemplate
    \/ CreateTargetGroup
    \/ CreateAutoscalingGroup
    \/ CreateLoadBalancer
    \/ CreateListener
    \/ Rerun

Spec == Init /\ [][Next]_vars

\* A step of the process itself: a statement of main or of one of its
\* functions, the return of a provider call included.
ProgramStep ==
    \/ LoadEnv
    \/ LoadConfig
    \/ MainCall
    \/ MainReturn
    \/ MainDone
    \/ CreateVPC
    \/ CreateInternetGateway
    \/ CreateSubnets
    \/ CreateSecurityGroup
    \/ CreateLaunchTemplate
    \/ CreateTargetGroup
    \/ CreateAutoscalingGroup
    \/ CreateLoadBalancer
    \/ CreateListener

\* Where the process is: every step of the process changes it.
progress == <<status, pc, inflight>>

\* The process keeps running while it has a statement to execute, and
\* every provider call returns.
FairSpec == Spec /\ WF_progress(ProgramStep)

-----------------------------------------------------------------------------
(* Reading the run's history *)

Idx == DOMAIN trace
IssueIdx == {i \in Idx : trace[i].ev = "issue"}
OkIdx == {i \in Idx : trace[i].ev = "ok"}
FailIdx == {i \in Idx : trace[i].ev = "fail"}
CallIdx == {i \in Idx : trace[i].ev = "call"}
Issued(op) == {i \in IssueIdx : trace[i].op = op}
Failed(op) == {i \in FailIdx : trace[i].op = op}

\* The error the run is ending with: what the function handed to main, then
\* what logger.Fatal printed.
Reported == IF status = "fatal" THEN errMsg ELSE ret.err
ReportedStep == IF Reported = NoErr THEN "" ELSE Reported[1]

\* What this run has created so far.
New(k) == cloud[k] \ prior[k]

NumPairs == Cardinality(DOMAIN AWSSubnetAvailabilityZones)

\* The resource a successful create call made is among the provider's.
Present(e) ==
    CASE e.op = "CreateVpc" -> e.id \in Ids(cloud.vpcs)
      [] e.op = "CreateInternetGateway" -> e.id \in Ids(cloud.igws)
      [] e.op = "CreateRouteTable" -> e.id \in Ids(cloud.rtbs)
      [] e.op = "CreateSubnet" -> e.id \in Ids(cloud.subnets)
      [] e.op = "CreateSecurityGroup" -> e.id \in Ids(cloud.sgs)
      [] e.op = "CreateLaunchTemplate" -> e.id \in Ids(cloud.lts)
      [] e.op = "CreateTargetGroup" -> e.id \in Ids(cloud.tgs)
      [] e.op = "CreateAutoScalingGroup" -> e.req.name \in Names(cloud.asgs)
      [] e.op = "PutScalingPolicy" -> e.req.name \in Names(cloud.policies)
      [] e.op = "CreateLoadBalancer" -> e.id \in Ids(cloud.lbs)
      [] e.op = "CreateListener" -> e.id \in Ids(cloud.listeners)
      [] OTHER -> TRUE

\* The provider operations the program has, all of them creating or
\* changing: none deletes.
ProgramOps ==
    {"CreateVpc", "ModifyVpcAttribute", "CreateInternetGateway",
     "AttachInternetGateway", "CreateRouteTable", "CreateRoute",
     "CreateSubnet", "ModifySubnetAttribute", "AssociateRouteTable",
     "CreateSecurityGroup", "AuthorizeSecurityGroupIngress",
     "CreateLaunchTemplate", "CreateTargetGroup", "CreateAutoScalingGroup",
     "PutScalingPolicy", "CreateLoadBalancer", "CreateListener"}

-----------------------------------------------------------------------------
(* C1 *)

\* C1: when a provider call fails, nothing follows it in the run's history
\* (no retry, no later call, no compensating call), the run is ending or has
\* ended with logger.Fatal on the wrapped error of that call and never
\* reports success, and every resource a call of this run created, like
\* every resource that existed before the run, is still among the provider's.
C1_FailureAbortsRun ==
    /\ \A i \in FailIdx :
          /\ i = Len(trace)
          /\ inflight = {}
          /\ status # "ok"
          /\ Reported # NoErr
          /\ Reported[2] = trace[i].why
          /\ status = "running" => pc = "return"
    /\ \A i \in IssueIdx : trace[i].op \in ProgramOps
    /\ \A i \in OkIdx : Present(trace[i])
    /\ \A k \in DOMAIN prior \ {"seq"} :
          {x.id : x \in {y \in prior[k] : "id" \in DOMAIN y}}
             \subseteq {x.id : x \in {y \in cloud[k] : "id" \in DOMAIN y}}

\* A call failed after the run had created subnets, and the run has ended.
C1_Witness ==
    /\ status = "fatal"
    /\ FailIdx # {}
    /\ New("subnets") # {}

-----------------------------------------------------------------------------
(* C2 *)

\* The identifiers a request takes as input.
Inputs(req) ==
    CASE req.op = "ModifyVpcAttribute" -> {req.vpc}
      [] req.op = "AttachInternetGateway" -> {req.igw, req.vpc}
      [] req.op = "CreateRouteTable" -> {req.vpc}
      [] req.op = "CreateRoute" -> {req.rtb, req.igw}
      [] req.op = "CreateSubnet" -> {req.vpc}
      [] req.op = "ModifySubnetAttribute" -> {req.subnet}
      [] req.op = "AssociateRouteTable" -> {req.rtb, req.subnet}
      [] req.op = "CreateSecurityGroup" -> {req.vpc}
      [] req.op = "AuthorizeSecurityGroupIngress" -> {req.sg}
      [] req.op = "CreateLaunchTemplate" -> Range(req.sgs)
      [] req.op = "CreateTargetGroup" -> {req.vpc}
      [] req.op = "CreateAutoScalingGroup" ->
            {req.lt} \cup Range(req.tgs) \cup Range(Split(req.zones))
      [] req.op = "PutScalingPolicy" -> {req.asg}
      [] req.op = "CreateLoadBalancer" -> Range(req.subnets) \cup Range(req.sgs)
      [] req.op = "CreateListener" ->
            {req.lb} \cup UNION {Range(a.targetGroups) : a \in Range(req.actions)}
      [] OTHER -> {}

\* Identifier x came back from a call that succeeded before position i.
ProducedBefore(x, i) ==
    \E j \in OkIdx :
        /\ j < i
        /\ \/ trace[j].id = x
           \/ trace[j].op = "CreateAutoScalingGroup" /\ trace[j].req.name = x

\* The subnets created before position i.
SubnetsBefore(i) ==
    {trace[j].id : j \in {h \in OkIdx : h < i /\ trace[h].op = "CreateSubnet"}}

\* C2: every identifier a request carries was returned by an earlier
\* successful call of the run; the autoscaling group and the load balancer
\* are given all the subnets, one per configured pair; and at most one
\* request is in flight: a request is sent only when none is pending, and
\* the entry after it in the history is its own answer.
C2_DependenciesFirst ==
    /\ Cardinality(inflight) <= 1
    /\ \A i \in IssueIdx :
          /\ \A x \in Inputs(trace[i].req) : x # NoId /\ ProducedBefore(x, i)
          /\ trace[i].op \in {"CreateAutoScalingGroup", "CreateLoadBalancer"} =>
                /\ Cardinality(SubnetsBefore(i)) = NumPairs
                /\ SubnetsBefore(i) \subseteq Inputs(trace[i].req)
          /\ IF i = Len(trace)
             THEN inflight = {trace[i].req}
             ELSE /\ trace[i + 1].ev \in {"ok", "fail"}
                  /\ trace[i + 1].req = trace[i].req
    /\ inflight # {} => Len(trace) \in IssueIdx

\* The listener, the last call of the pipeline, has been sent.
C2_Witness == Issued("CreateListener") # {} /\ inflight # {}

-----------------------------------------------------------------------------
(* C3 *)

\* C3: every provider call runs under main's context: once that context
\* is done, no provider call, pending or later, returns with success.
C3_NoSuccessAfterDeadline ==
    \A i \in OkIdx : ~trace[i].expired

-----------------------------------------------------------------------------
(* C4 *)

\* C4: when the create-load-balancer call fails, the error the run ends
\* with names load balancer creation, this run's network, gateway, route
\* table, subnets, security group, launch template, target group,
\* autoscaling group and policy are all still there, and no listener or
\* target registration call is in the run's history.
C4_LoadBalancerFailure ==
    Failed("CreateLoadBalancer") # {} =>
        /\ ReportedStep = "error creating load balancer"
        /\ status \in {"running", "fatal"}
        /\ Cardinality(New("vpcs")) = 1
        /\ Cardinality(New("igws")) = 1
        /\ Cardinality(New("rtbs")) = 1
        /\ Cardinality(New("subnets")) = NumPairs
        /\ Cardinality(New("sgs")) = 1
        /\ Cardinality(New("lts")) = 1
        /\ Cardinality(New("tgs")) = 1
        /\ Cardinality(New("asgs")) = 1
        /\ Cardinality(New("policies")) = 1
        /\ \A i \in OkIdx : Present(trace[i])
        /\ Issued("CreateListener") = {}
        /\ Issued("RegisterTargets") = {}
        /\ New("listeners") = {}

\* The run has ended on the failure of the create-load-balancer call.
C4_Witness ==
    /\ status = "fatal"
    /\ Failed("CreateLoadBalancer") # {}

-----------------------------------------------------------------------------
(* C5 *)

\* The run has ended on the error of os.ReadFile.
ReadFailed ==
    /\ status = "fatal"
    /\ ReportedStep = "error reading user_data.sh file"

\* C5: a run that fails on the unreadable payload has issued no provider
\* call at all.
C5_NoCallBeforeReadFailure ==
    ReadFailed => IssueIdx = {}

\* The provider calls of the launch template step and of the steps after it.
FromLaunchTemplateOn ==
    {"CreateLaunchTemplate", "CreateTargetGroup", "CreateAutoScalingGroup",
     "PutScalingPolicy", "CreateLoadBalancer", "CreateListener"}

\* What the code does: the file is read inside CreateLaunchTemplate, so a
\* run that fails on the unreadable payload has issued no launch-template
\* call and no call of a later step, but the calls of the network, gateway,
\* subnet and security-group steps, 8 + 3n of them for n pairs, were issued
\* before the read and all succeeded.
ReadFailureAfterEarlierSteps ==
    ReadFailed =>
        /\ \A i \in IssueIdx : trace[i].op \notin FromLaunchTemplateOn
        /\ trace[Len(trace)].ev = "call"
        /\ trace[Len(trace)].op = "CreateLaunchTemplate"
        /\ Cardinality(IssueIdx) = 8 + 3 * NumPairs
        /\ Cardinality(OkIdx) = 8 + 3 * NumPairs
        /\ FailIdx = {}
        /\ New("lts") = {}

-----------------------------------------------------------------------------
(* C6 *)

\* CreateSubnets has returned to main without an error.
SubnetsReturned ==
    /\ status = "running"
    /\ pc = "return"
    /\ MainOrder[mainPC] = "CreateSubnets"
    /\ ret.err = NoErr

\* C6: when CreateSubnets returns without an error, this run has created
\* exactly one subnet per configured pair, with the pair's CIDR block and
\* zone, in the run's network; each has public addressing on and is
\* associated with the run's one route table, whose only route is the
\* default route to the gateway created before; and the list returned
\* names each of these subnets once.
C6_SubnetsComplete ==
    SubnetsReturned =>
        /\ Cardinality(New("subnets")) = NumPairs
        /\ \A c \in DOMAIN AWSSubnetAvailabilityZones :
              Cardinality({s \in New("subnets") :
                              /\ s.cidr = c
                              /\ s.az = AWSSubnetAvailabilityZones[c]}) = 1
        /\ Cardinality(New("rtbs")) = 1
        /\ Cardinality(Issued("CreateRouteTable")) = 1
        /\ \A t \in New("rtbs") :
              /\ t.vpc = m.vpcID
              /\ t.routes = {[dest |-> "0.0.0.0/0", gateway |-> m.internetGatewayID]}
              /\ t.assoc = Ids(New("subnets"))
        /\ m.internetGatewayID \in Ids(New("igws"))
        /\ \A s \in New("subnets") :
              /\ s.mapPublicIpOnLaunch
              /\ s.vpc = m.vpcID
        /\ Len(ret.val) = NumPairs
        /\ Range(ret.val) = Ids(New("subnets"))
        /\ Cardinality(Range(ret.val)) = Len(ret.val)

C6_Witness == SubnetsReturned /\ Len(ret.val) > 1

-----------------------------------------------------------------------------
(* C7 *)

\* C7: if the create-group call fails, no policy call is issued; if the
\* policy call fails, the group the policy was for is still there, the
\* error the run ends with names the policy and not the group, and no
\* load balancer or listener call is issued; in both cases the provider's
\* resources only grow.
C7_GroupAndPolicyIndependent ==
    /\ Failed("CreateAutoScalingGroup") # {} =>
          /\ Issued("PutScalingPolicy") = {}
          /\ ReportedStep = "error creating autoscaling group"
          /\ New("asgs") = {}
    /\ Failed("PutScalingPolicy") # {} =>
          /\ \A i \in Failed("PutScalingPolicy") :
                trace[i].req.asg \in Names(New("asgs"))
          /\ Cardinality(New("asgs")) = 1
          /\ New("policies") = {}
          /\ ReportedStep = "error creating autoscaling policy"
          /\ status # "ok"
          /\ \A i \in IssueIdx : trace[i].op \in ProgramOps
          /\ Issued("CreateLoadBalancer") = {}
          /\ Issued("CreateListener") = {}
          /\ New("lbs") = {} /\ New("listeners") = {}

\* The run has ended on the failure of the policy call.
C7_Witness ==
    /\ status = "fatal"
    /\ Failed("PutScalingPolicy") # {}
    /\ New("asgs") # {}

-----------------------------------------------------------------------------
(* C8 *)

\* C8: in a run after a successful one, no create call is turned down
\* because its name is in use (so a provider that turns down nothing else
\* lets every step of that run succeed), and what the earlier run created
\* is left as it was.
C8_SecondRunParallelSet ==
    run > 1 =>
        /\ \A i \in FailIdx : trace[i].why # "name in use"
        /\ \A k \in DOMAIN prior \ {"seq"} : prior[k] \subseteq cloud[k]

-----------------------------------------------------------------------------
(* C9 *)

\* The positions of the history where main passes its variable k to a
\* function.
PassedAt(k) == {i \in CallIdx : k \in DOMAIN trace[i].req}

\* No create call is issued twice for the same resource.
NeverRecreated ==
    /\ \A op \in ProgramOps \ {"CreateSubnet", "ModifySubnetAttribute",
                               "AssociateRouteTable"} :
          Cardinality(Issued(op)) <= 1
    /\ \A i, j \in Issued("CreateSubnet") :
          trace[i].req.cidr = trace[j].req.cidr => i = j

\* C9: main passes each identifier to at most one function, and no
\* resource is created again (that none is changed after the function
\* that created it has returned is NoLateChange below).
C9_EachIdentifierPassedOnce ==
    /\ \A k \in MainVars : Cardinality(PassedAt(k)) <= 1
    /\ NeverRecreated

\* The function that produces main's variable k.
Producer(k) == CHOOSE fn \in Range(MainOrder) : Result(fn) = k

\* What the function main called at position i created and returned.
ReturnedBy(i) ==
    LET last == {j \in OkIdx : j > i /\ \A h \in CallIdx : h > i => h > j}
        subnets == {j \in last : trace[j].op = "CreateSubnet"}
        SeqOf(S) == [n \in 1..Cardinality(S) |->
                        trace[CHOOSE j \in S :
                                Cardinality({h \in S : h <= j}) = n].id]
    IN  IF trace[i].op = "CreateSubnets" THEN SeqOf(subnets)
        ELSE LET made == {j \in last : trace[j].id # NoId}
             IN  IF made = {} THEN NoId
                 ELSE trace[CHOOSE j \in made : \A h \in made : h <= j].id

\* How many functions main passes each of its variables to.
Consumers(k) == Cardinality({fn \in Range(MainOrder) : k \in Params(fn)})

\* The function whose calls create, and are the only ones to change, the
\* resources of kind k.
Creator(k) ==
    CASE k = "vpcs" -> "CreateVPC"
      [] k = "igws" -> "CreateInternetGateway"
      [] k \in {"rtbs", "subnets"} -> "CreateSubnets"
      [] k = "sgs" -> "CreateSecurityGroup"
      [] k = "lts" -> "CreateLaunchTemplate"
      [] k = "tgs" -> "CreateTargetGroup"
      [] k \in {"asgs", "policies"} -> "CreateAutoscalingGroup"
      [] k = "lbs" -> "CreateLoadBalancer"
      [] k = "listeners" -> "CreateListener"

\* The function has returned to main, which has gone on.
StepDone(fn) == \E i \in DOMAIN MainOrder : MainOrder[i] = fn /\ mainPC > i

\* A resource that existed before the run, or whose creating function has
\* completed, is the same after the step.
NoLateChange ==
    \A k \in DOMAIN cloud \ {"seq"} :
        \A x \in cloud[k] :
            (x \in prior[k] \/ StepDone(Creator(k))) => x \in cloud'[k]

\* Every identifier passed to a function is the value the producing function
\* returned earlier in the run; an identifier goes to as many functions as
\* take it (the network's to four, the subnets', the security group's and
\* the target group's to two each, the others to one); and no create call
\* is issued twice for the same resource.
PassedAfterProduced ==
    /\ \A k \in MainVars :
          /\ Cardinality(PassedAt(k)) <= Consumers(k)
          /\ \A i \in PassedAt(k) :
                /\ trace[i].req[k] # NoId
                /\ \E j \in CallIdx :
                      /\ j < i
                      /\ trace[j].op = Producer(k)
                      /\ trace[i].req[k] = ReturnedBy(j)
    /\ Consumers("vpcID") = 4
    /\ Consumers("subnetIDs") = 2
    /\ Consumers("securityGroupID") = 2
    /\ Consumers("targetGroupARN") = 2
    /\ NeverRecreated

\* C9 as amended: each identifier is passed only to functions called after
\* the one that produced it, some to more than one of them, and no resource
\* is created again or changed once the function that created it has
\* returned.
C9_PassedLaterNeverChanged ==
    /\ []PassedAfterProduced
    /\ [][NoLateChange]_vars

\* The run has passed the network's identifier to all four of its
\* consumers and the target group's to both.
C9_Witness ==
    /\ Cardinality(PassedAt("vpcID")) = 4
    /\ Cardinality(PassedAt("targetGroupARN")) = 2
    /\ status = "ok"

-----------------------------------------------------------------------------
(* C10 *)

\* The resource kind a create call makes, for the calls the order is about.
KindOf(op) ==
    CASE op = "CreateVpc" -> "network"
      [] op = "CreateInternetGateway" -> "gateway"
      [] op = "CreateSubnet" -> "subnets"
      [] op = "CreateSecurityGroup" -> "security group"
      [] op = "CreateLaunchTemplate" -> "launch template"
      [] op = "CreateAutoScalingGroup" -> "compute"
      [] op = "CreateTargetGroup" -> "target group"
      [] op = "CreateLoadBalancer" -> "load balancer"
      [] op = "CreateListener" -> "listener"
      [] OTHER -> ""

\* s without the entries that repeat the one before them.
RECURSIVE Collapse(_)
Collapse(s) ==
    IF Len(s) <= 1 THEN s
    ELSE IF s[1] = s[2] THEN Collapse(Tail(s))
    ELSE <<s[1]>> \o Collapse(Tail(s))

\* The kinds of resource, in the order of the run's events of type ev.
KindsIn(ev) ==
    LET es == SelectSeq(trace, LAMBDA e : e.ev = ev /\ KindOf(e.op) # "")
    IN  Collapse([i \in DOMAIN es |-> KindOf(es[i].op)])

IsPrefix(s, t) == Len(s) <= Len(t) /\ \A i \in DOMAIN s : s[i] = t[i]

ClaimedOrder ==
    <<"network", "gateway", "subnets", "security group", "launch template",
      "compute", "target group", "load balancer", "listener">>

CodeOrder ==
    <<"network", "gateway", "subnets", "security group", "launch template",
      "target group", "compute", "load balancer", "listener">>

\* C10 as claimed: a successful run created its resources in the order
\* network, gateway, subnets, security group, launch template, compute,
\* target group, load balancer, listener.
C10_ComputeBeforeTargetGroup ==
    status = "ok" => KindsIn("ok") = ClaimedOrder

\* C10 as amended: the order is network, gateway, subnets, security group,
\* launch template, target group, compute (the autoscaling group), load
\* balancer, listener: at every moment of a run what was attempted and
\* what was created follow that order, and a successful run went through
\* all of it; the target group is created before the compute resource.
C10_TargetGroupBeforeCompute ==
    /\ IsPrefix(KindsIn("issue"), CodeOrder)
    /\ IsPrefix(KindsIn("ok"), CodeOrder)
    /\ status = "ok" => KindsIn("ok") = CodeOrder

\* A run has succeeded, with one subnet per pair created on the way.
C10_Witness ==
    /\ status = "ok"
    /\ Cardinality({i \in OkIdx : trace[i].op = "CreateSubnet"}) = NumPairs

-----------------------------------------------------------------------------
(* C11 *)

\* A call of op succeeded before position i of the history.
SucceededBefore(op, i) == \E j \in OkIdx : j < i /\ trace[j].op = op

\* C11: the create-target-group call is issued only after the
\* create-load-balancer call has succeeded, and the create-listener call
\* only after both.
C11_BalancerBeforeTargetGroup ==
    /\ \A i \in Issued("CreateTargetGroup") :
          SucceededBefore("CreateLoadBalancer", i)
    /\ \A i \in Issued("CreateListener") :
          /\ SucceededBefore("CreateLoadBalancer", i)
          /\ SucceededBefore("CreateTargetGroup", i)

\* C11 as amended: the create-load-balancer call is issued only after the
\* create-target-group call (and the autoscaling calls that follow it) has
\* succeeded, and the create-listener call only after both the target
\* group's and the load balancer's.
C11_TargetGroupBeforeBalancer ==
    /\ \A i \in Issued("CreateLoadBalancer") :
          /\ SucceededBefore("CreateTargetGroup", i)
          /\ SucceededBefore("CreateAutoScalingGroup", i)
          /\ SucceededBefore("PutScalingPolicy", i)
    /\ \A i \in Issued("CreateTargetGroup") :
          ~SucceededBefore("CreateLoadBalancer", i)
    /\ \A i \in Issued("CreateListener") :
          /\ SucceededBefore("CreateLoadBalancer", i)
          /\ SucceededBefore("CreateTargetGroup", i)

\* The listener call has been sent and answered with success.
C11_Witness ==
    \E i \in OkIdx : trace[i].op = "CreateListener"

-----------------------------------------------------------------------------
(* C12 *)

\* The CIDR blocks of the create-subnet calls, in the order they were sent.
SubnetCallOrder ==
    LET es == SelectSeq(trace,
                LAMBDA e : e.ev = "issue" /\ e.op = "CreateSubnet")
    IN  [i \in DOMAIN es |-> es[i].req.cidr]

\* The subnets created in this run, in the order of their creation.
SubnetsInCreationOrder ==
    LET es == SelectSeq(trace, LAMBDA e : e.ev = "ok" /\ e.op = "CreateSubnet")
    IN  [i \in DOMAIN es |-> es[i].id]

\* C12: every run sends the create-subnet calls in the declared order of
\* the (CIDR, zone) pairs (so any two runs create them in the same order),
\* and the autoscaling group and the load balancer get the subnet
\* identifiers in that order.
C12_SubnetsInDeclaredOrder ==
    /\ IsPrefix(SubnetCallOrder, DeclaredOrder)
    /\ \A i \in Issued("CreateAutoScalingGroup") :
          Split(trace[i].req.zones) = SubnetsInCreationOrder
    /\ \A i \in Issued("CreateLoadBalancer") :
          trace[i].req.subnets = SubnetsInCreationOrder

\* What the code does: the order of the calls is any order of the keys, and
\* the two consumers get the identifiers in the order of creation.
SubnetsInSomeOrder ==
    /\ Range(SubnetCallOrder) \subseteq DOMAIN AWSSubnetAvailabilityZones
    /\ Cardinality(Range(SubnetCallOrder)) = Len(SubnetCallOrder)
    /\ \A i \in Issued("CreateAutoScalingGroup") :
          Split(trace[i].req.zones) = SubnetsInCreationOrder
    /\ \A i \in Issued("CreateLoadBalancer") :
          trace[i].req.subnets = SubnetsInCreationOrder

-----------------------------------------------------------------------------
(* C13 *)

\* The operation whose failure ended the run.
FailedOp ==
    IF pc \in {"godotenv.Load", "LoadDefaultConfig"} THEN pc
    ELSE IF trace # <<>> /\ trace[Len(trace)].ev = "fail"
         THEN trace[Len(trace)].op
         ELSE "ReadFile"

\* The operation each step message names.
OpOfMessage ==
    [msg \in {"Error loading .env file", "error creating VPC",
              "error enabling DNS hostnames", "error creating internet gateway",
              "error attaching internet gateway to VPC",
              "error creating route table",
              "error creating route to internet gateway",
              "error creating subnet", "error enabling auto-assign public IPv4",
              "error associating route table", "error creating security group",
              "error adding inbound (ingress) rule for port 8080",
              "error reading user_data.sh file",
              "error creating launch template", "error creating target group",
              "error creating autoscaling group",
              "error creating autoscaling policy",
              "error creating load balancer", "error creating listener"} |->
       CASE msg = "Error loading .env file" -> "godotenv.Load"
         [] msg = "error creating VPC" -> "CreateVpc"
         [] msg = "error enabling DNS hostnames" -> "ModifyVpcAttribute"
         [] msg = "error creating internet gateway" -> "CreateInternetGateway"
         [] msg = "error attaching internet gateway to VPC" -> "AttachInternetGateway"
         [] msg = "error creating route table" -> "CreateRouteTable"
         [] msg = "error creating route to internet gateway" -> "CreateRoute"
         [] msg = "error creating subnet" -> "CreateSubnet"
         [] msg = "error enabling auto-assign public IPv4" -> "ModifySubnetAttribute"
         [] msg = "error associating route table" -> "AssociateRouteTable"
         [] msg = "error creating security group" -> "CreateSecurityGroup"
         [] msg = "error adding inbound (ingress) rule for port 8080" ->
                "AuthorizeSecurityGroupIngress"
         [] msg = "error reading user_data.sh file" -> "ReadFile"
         [] msg = "error creating launch template" -> "CreateLaunchTemplate"
         [] msg = "error creating target group" -> "CreateTargetGroup"
         [] msg = "error creating autoscaling group" -> "CreateAutoScalingGroup"
         [] msg = "error creating autoscaling policy" -> "PutScalingPolicy"
         [] msg = "error creating load balancer" -> "CreateLoadBalancer"
         [] msg = "error creating listener" -> "CreateListener"]

\* C13: a run that ended with a fatal error printed a message that names
\* the step that failed, one message per operation, with the underlying
\* error; and it stopped there.
C13_FatalMessageNamesStep ==
    status = "fatal" =>
        /\ errMsg # NoErr
        /\ errMsg[1] \in DOMAIN OpOfMessage
        /\ OpOfMessage[errMsg[1]] = FailedOp
        /\ errMsg[2] # ""
        /\ inflight = {}

\* What the code does: the failure of config.LoadDefaultConfig prints the
\* underlying error alone; every other failure names its operation.
FatalMessageNamesStepButConfig ==
    status = "fatal" =>
        /\ errMsg # NoErr
        /\ errMsg[2] # ""
        /\ inflight = {}
        /\ IF FailedOp = "LoadDefaultConfig"
           THEN errMsg[1] = ""
           ELSE errMsg[1] \in DOMAIN OpOfMessage
                /\ OpOfMessage[errMsg[1]] = FailedOp

-----------------------------------------------------------------------------
(* C14 *)

FinalLine == Line("All AWS resources created successfully", <<>>)

\* The lines that report no provider call.
ProgressLines ==
    {Line("Environment variables loaded successfully", <<>>),
     Line("AWS configuration loaded successfully", <<>>),
     Line("user_data.sh file read successfully", <<>>),
     FinalLine}

\* The lines printed for provider calls, and the calls that came back well.
CallLines == SelectSeq(logs, LAMBDA l : l \notin ProgressLines)
OkEvents == SelectSeq(trace, LAMBDA e : e.ev = "ok")

\* The calls whose line carries no identifier.
LoggedWithoutIdentifier == {"CreateListener", "PutScalingPolicy"}

\* C14 as claimed: one line for each of main's steps that completed and
\* none for a step that failed, every line with the identifier assigned,
\* and the final line exactly on the runs in which every step completed.
C14_OneLinePerStep ==
    /\ (pc = "main" \/ status = "fatal") => Len(CallLines) = mainPC - 1
    /\ \A k \in DOMAIN CallLines : CallLines[k].ids # <<>>
    /\ (\E k \in DOMAIN logs : logs[k] = FinalLine) <=> status = "ok"

\* C14 amended: at every moment of a run there is one line for each
\* provider call that came back well, in the order of the calls, printed
\* before the next call is sent, and none for a call that failed; the line
\* carries the identifier the provider assigned (or the name or the
\* identifier the call was about), except the lines of the listener and of
\* the scaling policy, which carry none; the final line is printed exactly
\* when all nine functions have returned without an error.
C14_OneLinePerSuccessfulCall ==
    /\ Len(CallLines) = Len(OkEvents)
    /\ \A k \in DOMAIN CallLines :
          k <= Len(OkEvents) =>
             LET e == OkEvents[k]
                 l == CallLines[k]
             IN  /\ l.text = LogLine(e.req, [id |-> e.id]).text
                 /\ e.op \in LoggedWithoutIdentifier <=> l.ids = <<>>
                 /\ e.id # NoId /\ e.op \notin LoggedWithoutIdentifier
                       => l.ids = <<e.id>>
    /\ (\E k \in DOMAIN logs : logs[k] = FinalLine) <=> status = "ok"
    /\ status = "ok" =>
          /\ mainPC = Len(MainOrder) + 1
          /\ FailIdx = {}
          /\ \A op \in ProgramOps : \E i \in OkIdx : trace[i].op = op

\* A successful run has printed its 14 + 3n lines and the final one.
C14_Witness ==
    /\ status = "ok"
    /\ Len(CallLines) = 14 + 3 * NumPairs
    /\ logs[Len(logs)] = FinalLine

-----------------------------------------------------------------------------
(* C16 *)

\* The identifiers that calls of op returned in this run before event i.
ReturnedBefore(op, i) ==
    {trace[j].id : j \in {k \in OkIdx : k < i /\ trace[k].op = op}}

\* One default action, of type forward, to one target group.
ForwardsToOne(actions) ==
    /\ Len(actions) = 1
    /\ actions[1].type = "forward"
    /\ Len(actions[1].targetGroups) = 1

\* C16: the listener is asked for, and created, with exactly one default
\* action, of type forward, to exactly one target group, the one this run
\* created before; and on the load balancer this run created.
C16_ListenerForwardsToTargetGroup ==
    /\ \A i \in Issued("CreateListener") :
          LET req == trace[i].req IN
          /\ ForwardsToOne(req.actions)
          /\ {req.actions[1].targetGroups[1]} = ReturnedBefore("CreateTargetGroup", i)
          /\ {req.lb} = ReturnedBefore("CreateLoadBalancer", i)
    /\ \A l \in New("listeners") :
          /\ ForwardsToOne(l.actions)
          /\ {l.actions[1].targetGroups[1]} = Ids(New("tgs"))
          /\ {l.lb} = Ids(New("lbs"))

\* The listener of this run exists.
C16_Witness == New("listeners") # {} /\ New("tgs") # {} /\ New("lbs") # {}

-----------------------------------------------------------------------------
(* C17 *)

\* C17: the autoscaling group is asked for, and created, with the
\* configured sizes (min <= max), exactly the target group of this run and
\* the launch template of this run; the scaling policy is put on that
\* group, by its name, with the configured CPU threshold as target value
\* of the average-CPU-utilization metric; and when the function has
\* returned well there is one such group and one such policy.
C17_GroupAndPolicyMatchConfiguration ==
    /\ \A i \in Issued("CreateAutoScalingGroup") :
          LET req == trace[i].req IN
          /\ req.min = AWSMinEC2Count /\ req.max = AWSMaxEC2Count
          /\ req.min <= req.max
          /\ Range(req.tgs) = ReturnedBefore("CreateTargetGroup", i)
          /\ Len(req.tgs) = 1
          /\ {req.lt} = ReturnedBefore("CreateLaunchTemplate", i)
    /\ \A g \in New("asgs") :
          /\ g.min = AWSMinEC2Count /\ g.max = AWSMaxEC2Count
          /\ g.min <= g.max
          /\ g.tgs = Ids(New("tgs")) /\ Cardinality(g.tgs) = 1
          /\ {g.lt} = Ids(New("lts"))
    /\ \A i \in Issued("PutScalingPolicy") :
          {trace[i].req.asg} = Names(New("asgs"))
    /\ \A q \in New("policies") :
          /\ {q.asg} = Names(New("asgs"))
          /\ q.targetValue = AWSAutoScalingCPUThreshold
          /\ q.metric = "ASGAverageCPUUtilization"
          /\ q.type = AWSAutoscalingPolicyType
    /\ StepDone("CreateAutoscalingGroup") =>
          /\ Cardinality(New("asgs")) = 1
          /\ Cardinality(New("policies")) = 1

\* The autoscaling step has succeeded.
C17_Witness ==
    /\ StepDone("CreateAutoscalingGroup")
    /\ New("policies") # {}

-----------------------------------------------------------------------------
(* C18 *)

\* C18: when a run has succeeded, it has created one network, one security
\* group, one launch template, one target group, one autoscaling group, one
\* load balancer and one listener, and: the group's target group is the one
\* the listener forwards to; the group's subnets, the balancer's subnets
\* and the subnets created in the run are the same set; the template's
\* security group is the balancer's; the target group, the security group
\* and the subnets are in the run's network.
C18_EndToEndWiring ==
    status = "ok" =>
        /\ \A k \in {"vpcs", "sgs", "lts", "tgs", "asgs", "lbs", "listeners"} :
              Cardinality(New(k)) = 1
        /\ \E v \in New("vpcs"), sg \in New("sgs"), lt \in New("lts"),
              tg \in New("tgs"), g \in New("asgs"), b \in New("lbs"),
              l \in New("listeners") :
              /\ g.tgs = {tg.id}
              /\ \A a \in Range(l.actions) : Range(a.targetGroups) = {tg.id}
              /\ l.lb = b.id
              /\ Range(g.subnets) = Range(b.subnets)
              /\ Range(b.subnets) = Ids(New("subnets"))
              /\ Cardinality(New("subnets")) = NumPairs
              /\ Range(lt.sgs) = {sg.id}
              /\ Range(b.sgs) = {sg.id}
              /\ g.lt = lt.id
              /\ tg.vpc = v.id
              /\ sg.vpc = v.id
              /\ \A sn \in New("subnets") : sn.vpc = v.id

\* A run has succeeded, with all its subnets and its listener.
C18_Witness ==
    /\ status = "ok"
    /\ Cardinality(New("subnets")) = NumPairs
    /\ New("listeners") # {}

-----------------------------------------------------------------------------
(* C19 *)

PerSubnetOps == {"CreateSubnet", "ModifySubnetAttribute", "AssociateRouteTable"}

\* A call for one of the pairs has failed in this run.
PerSubnetFailure == \E i \in FailIdx : trace[i].op \in PerSubnetOps

\* The subnet exists, created in this run, gives public addresses and is
\* associated with a route table of this run.
FullyProcessed(id) ==
    /\ \E sn \in New("subnets") : sn.id = id /\ sn.mapPublicIpOnLaunch
    /\ \E t \in New("rtbs") : id \in t.assoc

\* One fully processed subnet for each configured pair.
WholeList(ids) ==
    /\ Len(ids) = NumPairs
    /\ Cardinality(Range(ids)) = NumPairs
    /\ \A id \in Range(ids) : FullyProcessed(id)
    /\ {sn.cidr : sn \in {x \in New("subnets") : x.id \in Range(ids)}}
          = DOMAIN AWSSubnetAvailabilityZones

\* C19: once a call for one of the pairs has failed, CreateSubnets returns
\* an error and no identifier and main has none; and the autoscaling group
\* and the load balancer are only ever asked for with the whole list.
C19_SubnetsAllOrNothing ==
    /\ PerSubnetFailure =>
          /\ pc = "return" \/ status = "fatal"
          /\ ret.val = NoId /\ ret.err # NoErr
          /\ m.subnetIDs = NoId
          /\ Issued("CreateAutoScalingGroup") = {}
          /\ Issued("CreateLoadBalancer") = {}
    /\ \A i \in Issued("CreateAutoScalingGroup") :
          WholeList(Split(trace[i].req.zones))
    /\ \A i \in Issued("CreateLoadBalancer") : WholeList(trace[i].req.subnets)

\* The call for the last pair failed: the run is over with no identifier
\* returned while the subnets of all pairs exist.
C19_Witness ==
    /\ status = "fatal"
    /\ Failed("AssociateRouteTable") # {}
    /\ Cardinality(New("subnets")) = NumPairs
    /\ m.subnetIDs = NoId

-----------------------------------------------------------------------------
(* C20 *)

\* The provider calls of a run that goes through: 14 and three per pair.
CallsOfFullRun == 14 + 3 * NumPairs

\* What a per-subnet call is about: the pair's CIDR block, or the subnet.
SubnetOf(req) == IF req.op = "CreateSubnet" THEN req.cidr ELSE req.subnet

\* No operation is issued twice in a run, the per-subnet ones not twice
\* for the same subnet.
IssuedOnce ==
    /\ \A op \in ProgramOps \ PerSubnetOps : Cardinality(Issued(op)) <= 1
    /\ \A op \in PerSubnetOps :
          /\ Cardinality(Issued(op)) <= NumPairs
          /\ \A i, j \in Issued(op) :
                i # j => SubnetOf(trace[i].req) # SubnetOf(trace[j].req)
    /\ \A i \in IssueIdx : trace[i].op \in ProgramOps

Terminates == (status = "running") ~> (status # "running")

\* C20 as claimed: every run ends, well or with a fatal error; a run that
\* ended well has issued exactly 14 + 3n calls, a run that failed strictly
\* fewer; no operation is issued twice.
C20_FailedRunIssuesFewer ==
    /\ Terminates
    /\ [](/\ status = "ok" => Cardinality(IssueIdx) = CallsOfFullRun
          /\ status = "fatal" => Cardinality(IssueIdx) < CallsOfFullRun
          /\ IssuedOnce)

\* C20 amended: every run ends, well or with a fatal error; a run that
\* ended well has issued exactly 14 + 3n calls, all answered well; a run
\* that failed has issued at most 14 + 3n (exactly that many when the last
\* call, the listener's, is the one that fails), of which strictly fewer
\* were answered well; no operation is issued twice.
C20_TerminatesWithinCallBound ==
    /\ Terminates
    /\ [](/\ Cardinality(IssueIdx) <= CallsOfFullRun
          /\ status = "ok" =>
                /\ Cardinality(IssueIdx) = CallsOfFullRun
                /\ Cardinality(OkIdx) = CallsOfFullRun
          /\ status = "fatal" =>
                /\ Cardinality(OkIdx) < CallsOfFullRun
                /\ Cardinality(FailIdx) <= 1
                /\ Cardinality(IssueIdx) = CallsOfFullRun
                      <=> Failed("CreateListener") # {}
          /\ IssuedOnce)

\* A run that failed at its last call, after 14 + 3n calls.
C20_Witness ==
    /\ status = "fatal"
    /\ Cardinality(IssueIdx) = CallsOfFullRun
    /\ Failed("CreateListener") # {}

=============================================================================
